---- MODULE Spec2Model ----
(***************************************************************************)
(* Model of replace-quotes.py: the quote normalizer (variant folding then  *)
(* alternating pairing) and the per-file pipeline with its batch driver.   *)
(* Characters of file content are Unicode code points; characters of a     *)
(* path are one-character strings.                                          *)
(***************************************************************************)
EXTENDS Integers, Sequences, FiniteSets, TLC

VARIABLES
    files,                  \* args.files: the paths given on the command line
    no_backup,              \* args.no_backup
    fs,                     \* file system: path -> [kind, content]
    pc,                     \* position of the driver / of the per-file pipeline
    idx,                    \* position of the for loop of main in args.files
    total_files,            \* main: total_files
    success_count,          \* main: success_count
    exit_code,              \* status given to sys.exit, -1 while running
    content,                \* replace_quotes_in_file: content
    original_quote_count,   \* replace_quotes_in_file: original_quote_count
    is_opening,             \* replace_quotes_in_file: is_opening after the loop
    result,                 \* return value of replace_quotes_in_file
    message,                \* the four counts of the success message
    startFs,                \* history: fs when the current pipeline started
    steps,                  \* history: steps the current pipeline has run
    runs,                   \* history: one record per call of the pipeline
    nbuf,                   \* normalizer harness: input buffer
    nout,                   \* normalizer harness: Normalize(nbuf)
    nagain,                 \* normalizer harness: Normalize(nout)
    nmsg,                   \* normalizer harness: the four reported counts
    npc                     \* normalizer harness: position

vars == <<files, no_backup, fs, pc, idx, total_files, success_count, exit_code,
          content, original_quote_count, is_opening, result, message,
          startFs, steps, runs, nbuf, nout, nagain, nmsg, npc>>

pipeVars == <<files, no_backup, fs, pc, idx, total_files, success_count,
              exit_code, content, original_quote_count, is_opening, result,
              message, startFs, steps, runs>>

normVars == <<nbuf, nout, nagain, nmsg, npc>>

----------------------------------------------------------------------------
(* Bounds *)

MaxLen == 3

MaxFiles == 2

----------------------------------------------------------------------------
(* Program constants *)

ASCII_QUOTE == 34

LEFT_QUOTE == 8220

RIGHT_QUOTE == 8221

QUOTES_TO_REPLACE_NoLeft == <<8221, 8222, 8223, 8243, 12317, 12318, 65282>>

QUOTES_TO_REPLACE == <<8220, 8221, 8222, 8223, 8243, 12317, 12318, 65282>>

SUPPORTED_EXTENSIONS ==
    { <<".", "t", "e", "x">>, <<".", "t", "x", "t">>, <<".", "m", "d">>,
      <<".", "m", "a", "r", "k", "d", "o", "w", "n">>,
      <<".", "r", "s", "t">>, <<".", "o", "r", "g">> }

BackupSuffix == <<".", "b", "a", "k">>

----------------------------------------------------------------------------
(* The normalizer *)

\* a replace that removes the character instead of substituting it
ReplaceDrop(s, old, new) ==
    LET Keep(c) == c # old
    IN  SelectSeq(s, Keep)

\* str.replace(old, new) for one-character old and new
Replace(s, old, new) == [i \in 1..Len(s) |-> IF s[i] = old THEN new ELSE s[i]]

RECURSIVE FoldFrom(_, _)
\* the for loop over QUOTES_TO_REPLACE, from its k-th element on
FoldFrom(s, k) ==
    IF k > Len(QUOTES_TO_REPLACE) THEN s
    ELSE FoldFrom(Replace(s, QUOTES_TO_REPLACE[k], ASCII_QUOTE), k + 1)

Fold(s) == FoldFrom(s, 1)

\* str.count(ch)
Count(s, ch) == Cardinality({i \in 1..Len(s) : s[i] = ch})

RECURSIVE PairFromKeepClose(_, _, _, _)
\* a pairing loop whose closing branch appends the character it read
PairFromKeepClose(s, i, opening, res) ==
    IF i > Len(s) THEN [result |-> res, is_opening |-> opening]
    ELSE IF s[i] = ASCII_QUOTE
         THEN IF opening
              THEN PairFromKeepClose(s, i + 1, FALSE, Append(res, LEFT_QUOTE))
              ELSE PairFromKeepClose(s, i + 1, TRUE, Append(res, s[i]))
         ELSE PairFromKeepClose(s, i + 1, opening, Append(res, s[i]))

RECURSIVE PairFrom(_, _, _, _)
\* the for loop over the characters of content, from its i-th character on
PairFrom(s, i, opening, res) ==
    IF i > Len(s) THEN [result |-> res, is_opening |-> opening]
    ELSE IF s[i] = ASCII_QUOTE
         THEN IF opening
              THEN PairFrom(s, i + 1, FALSE, Append(res, LEFT_QUOTE))
              ELSE PairFrom(s, i + 1, TRUE, Append(res, RIGHT_QUOTE))
         ELSE PairFrom(s, i + 1, opening, Append(res, s[i]))

\* a pairing loop entered with is_opening = False
PairClosingFirst(s) == PairFrom(s, 1, FALSE, <<>>)

\* result = [], is_opening = True, then the loop
Pair(s) == PairFrom(s, 1, TRUE, <<>>)

Normalize(s) == Pair(Fold(s)).result

----------------------------------------------------------------------------
(* Paths and the file system *)

PathA == <<"a", ".", "t", "e", "x">>

PathB == <<"b", ".", "p", "d", "f">>

PathC == <<"c", ".", "T", "X", "T">>

Paths == {PathA, PathB, PathC}

\* filepath + '.bak'
BackupPath(p) == p \o BackupSuffix

AllPaths == Paths \cup {BackupPath(p) : p \in Paths}

UpperChars == <<"A", "B", "C", "D", "E", "F", "G", "H", "I", "J", "K", "L", "M",
                "N", "O", "P", "Q", "R", "S", "T", "U", "V", "W", "X", "Y", "Z">>

LowerChars == <<"a", "b", "c", "d", "e", "f", "g", "h", "i", "j", "k", "l", "m",
                "n", "o", "p", "q", "r", "s", "t", "u", "v", "w", "x", "y", "z">>

LowerIdentity(c) == c

\* str.lower() on one character
Lower(c) ==
    IF \E i \in 1..Len(UpperChars) : UpperChars[i] = c
    THEN LowerChars[CHOOSE i \in 1..Len(UpperChars) : UpperChars[i] = c]
    ELSE c

LowerStr(s) == [i \in 1..Len(s) |-> Lower(s[i])]

\* str.rfind(c), 1-based, 0 when c does not occur
LastIndex(p, c) ==
    IF \E i \in 1..Len(p) : p[i] = c
    THEN CHOOSE i \in 1..Len(p) : p[i] = c /\ \A j \in (i + 1)..Len(p) : p[j] # c
    ELSE 0

\* the second component of os.path.splitext(p)
SplitExt(p) ==
    LET sepIndex == LastIndex(p, "/")
        dotIndex == LastIndex(p, ".")
    IN  IF dotIndex > sepIndex
           /\ \E k \in (sepIndex + 1)..(dotIndex - 1) : p[k] # "."
        THEN SubSeq(p, dotIndex, Len(p))
        ELSE <<>>

\* an existence check that lets every path through
ExistsAlways(f) == TRUE

\* os.path.exists
Exists(f) == f.kind # "absent"

\* what an open(..., 'r') / open(..., 'rb') of the path can do
CanOpenForRead(f) == f.kind = "file"

Absent == [kind |-> "absent", content |-> <<>>]

Prefixes(s) == {SubSeq(s, 1, k) : k \in 0..(Len(s) - 1)}

\* contents a file given on the command line starts with
OddContent == <<8222, 97>>

EvenContent == <<34, 97, 8221>>

StaleContent == <<97>>

FileStates ==
    { Absent,
      [kind |-> "dir", content |-> <<>>],
      [kind |-> "noread", content |-> OddContent],
      [kind |-> "file", content |-> OddContent],
      [kind |-> "file", content |-> EvenContent] }

BackupStates == {Absent, [kind |-> "file", content |-> StaleContent]}

FileLists == UNION {[1..k -> Paths] : k \in 1..MaxFiles}

NoMessage == [original |-> 0, left |-> 0, right |-> 0, ascii |-> 0]

NoResult == [success |-> FALSE, error |-> "none"]

Failure(e) == [success |-> FALSE, error |-> e]

filepath == files[idx]

----------------------------------------------------------------------------
(* The batch driver and the per-file pipeline *)

NormIdle ==
    /\ nbuf = <<>>
    /\ nout = <<>>
    /\ nagain = <<>>
    /\ nmsg = NoMessage
    /\ npc = "idle"

\* main after parse_args: total_files = len(args.files), success_count = 0
Init ==
    /\ files \in FileLists
    /\ no_backup \in BOOLEAN
    /\ \E given \in [Paths -> FileStates], bak \in BackupStates :
          fs = [p \in AllPaths |-> IF p \in Paths THEN given[p] ELSE bak]
    /\ pc = "loop"
    /\ idx = 0
    /\ total_files = Len(files)
    /\ success_count = 0
    /\ exit_code = -1
    /\ content = <<>>
    /\ original_quote_count = 0
    /\ is_opening = TRUE
    /\ result = NoResult
    /\ message = NoMessage
    /\ startFs = fs
    /\ steps = <<>>
    /\ runs = <<>>
    /\ NormIdle

\* for filepath in args.files: ... replace_quotes_in_file(filepath, ...)
NextFile ==
    /\ pc = "loop"
    /\ idx < Len(files)
    /\ idx' = idx + 1
    /\ pc' = "exists"
    /\ content' = <<>>
    /\ original_quote_count' = 0
    /\ result' = NoResult
    /\ message' = NoMessage
    /\ startFs' = fs
    /\ steps' = <<>>
    /\ runs' = Append(runs, [path |-> files[idx + 1], returned |-> FALSE,
                             success |-> FALSE])
    /\ UNCHANGED <<files, no_backup, fs, total_files, success_count, exit_code,
                   is_opening>>
    /\ UNCHANGED normVars

\* if not os.path.exists(filepath): return False, ...
CheckExists ==
    /\ pc = "exists"
    /\ steps' = Append(steps, "exists")
    /\ IF Exists(fs[filepath])
       THEN pc' = "ext" /\ UNCHANGED result
       ELSE pc' = "returned" /\ result' = Failure("NotFoundError")
    /\ UNCHANGED <<files, no_backup, fs, idx, total_files, success_count,
                   exit_code, content, original_quote_count, is_opening,
                   message, startFs, runs>>
    /\ UNCHANGED normVars

\* if ext.lower() not in SUPPORTED_EXTENSIONS: return False, ...
CheckExtension ==
    /\ pc = "ext"
    /\ steps' = Append(steps, "ext")
    /\ IF LowerStr(SplitExt(filepath)) \in SUPPORTED_EXTENSIONS
       THEN pc' = "backup" /\ UNCHANGED result
       ELSE pc' = "returned" /\ result' = Failure("UnsupportedTypeError")
    /\ UNCHANGED <<files, no_backup, fs, idx, total_files, success_count,
                   exit_code, content, original_quote_count, is_opening,
                   message, startFs, runs>>
    /\ UNCHANGED normVars

\* a backup that creates the destination without the content
BackupCopiedEmpty ==
    /\ CanOpenForRead(fs[filepath])
    /\ fs' = [fs EXCEPT ![BackupPath(filepath)] =
                 [kind |-> "file", content |-> <<>>]]
    /\ pc' = "read"
    /\ UNCHANGED result

\* a backup that moves the file instead of copying it
BackupMoved ==
    /\ CanOpenForRead(fs[filepath])
    /\ fs' = [fs EXCEPT ![BackupPath(filepath)] =
                 [kind |-> "file", content |-> fs[filepath].content],
                        ![filepath] = Absent]
    /\ pc' = "read"
    /\ UNCHANGED result

\* shutil.copy2(filepath, backup_path) completed
BackupCopied ==
    /\ CanOpenForRead(fs[filepath])
    /\ fs' = [fs EXCEPT ![BackupPath(filepath)] =
                 [kind |-> "file", content |-> fs[filepath].content]]
    /\ pc' = "read"
    /\ UNCHANGED result

\* shutil.copy2 raised: before the destination was opened, or part way
BackupFailed ==
    /\ \/ UNCHANGED fs
       \/ /\ CanOpenForRead(fs[filepath])
          /\ \E part \in Prefixes(fs[filepath].content) :
                fs' = [fs EXCEPT ![BackupPath(filepath)] =
                          [kind |-> "file", content |-> part]]
    /\ pc' = "returned"
    /\ result' = Failure("BackupError")

\* if backup: try: shutil.copy2(...) except Exception: return False, ...
Backup ==
    /\ pc = "backup"
    /\ IF no_backup
       THEN pc' = "read" /\ UNCHANGED <<fs, result, steps>>
       ELSE /\ steps' = Append(steps, "backup")
            /\ (BackupCopied \/ BackupFailed)
    /\ UNCHANGED <<files, no_backup, idx, total_files, success_count,
                   exit_code, content, original_quote_count, is_opening,
                   message, startFs, runs>>
    /\ UNCHANGED normVars

\* with open(filepath, 'r', encoding='utf-8') as f: content = f.read()
Read ==
    /\ pc = "read"
    /\ steps' = Append(steps, "read")
    /\ \/ /\ CanOpenForRead(fs[filepath])
          /\ content' = fs[filepath].content
          /\ pc' = "transform"
          /\ UNCHANGED result
       \/ /\ pc' = "returned"
          /\ result' = Failure("ReadError")
          /\ UNCHANGED content
    /\ UNCHANGED <<files, no_backup, fs, idx, total_files, success_count,
                   exit_code, original_quote_count, is_opening, message,
                   startFs, runs>>
    /\ UNCHANGED normVars

\* the pairing loop with is_opening kept from the previous call
TransformCarried ==
    /\ pc = "transform"
    /\ steps' = Append(steps, "transform")
    /\ LET folded == Fold(content)
           paired == PairFrom(folded, 1, is_opening, <<>>)
       IN  /\ original_quote_count' = Count(folded, ASCII_QUOTE)
           /\ content' = paired.result
           /\ is_opening' = paired.is_opening
    /\ pc' = "write"
    /\ UNCHANGED <<files, no_backup, fs, idx, total_files, success_count,
                   exit_code, result, message, startFs, runs>>
    /\ UNCHANGED normVars

\* fold the variants, count the quotes, pair them (is_opening = True first)
Transform ==
    /\ pc = "transform"
    /\ steps' = Append(steps, "transform")
    /\ LET folded == Fold(content)
           paired == Pair(folded)
       IN  /\ original_quote_count' = Count(folded, ASCII_QUOTE)
           /\ content' = paired.result
           /\ is_opening' = paired.is_opening
    /\ pc' = "write"
    /\ UNCHANGED <<files, no_backup, fs, idx, total_files, success_count,
                   exit_code, result, message, startFs, runs>>
    /\ UNCHANGED normVars

\* with open(filepath, 'w', encoding='utf-8') as f: f.write(content)
Write ==
    /\ pc = "write"
    /\ steps' = Append(steps, "write")
    /\ \/ /\ fs' = [fs EXCEPT ![filepath].content = content]
          /\ pc' = "report"
          /\ UNCHANGED result
       \/ /\ \/ UNCHANGED fs
             \/ \E part \in Prefixes(content) :
                   fs' = [fs EXCEPT ![filepath].content = part]
          /\ pc' = "returned"
          /\ result' = Failure("WriteError")
    /\ UNCHANGED <<files, no_backup, idx, total_files, success_count,
                   exit_code, content, original_quote_count, is_opening,
                   message, startFs, runs>>
    /\ UNCHANGED normVars

\* the three counts on the written content; return True, message
Report ==
    /\ pc = "report"
    /\ steps' = Append(steps, "report")
    /\ message' = [original |-> original_quote_count,
                   left |-> Count(content, LEFT_QUOTE),
                   right |-> Count(content, RIGHT_QUOTE),
                   ascii |-> Count(content, ASCII_QUOTE)]
    /\ result' = [success |-> TRUE, error |-> "none"]
    /\ pc' = "returned"
    /\ UNCHANGED <<files, no_backup, fs, idx, total_files, success_count,
                   exit_code, content, original_quote_count, is_opening,
                   startFs, runs>>
    /\ UNCHANGED normVars

\* a driver that stops the batch at the first failed file
TallyAbort ==
    /\ pc = "returned"
    /\ runs' = [runs EXCEPT ![Len(runs)] =
                   [path |-> filepath, returned |-> TRUE,
                    success |-> result.success]]
    /\ IF result.success
       THEN success_count' = success_count + 1 /\ pc' = "loop"
                /\ UNCHANGED exit_code
       ELSE pc' = "done" /\ exit_code' = 1 /\ UNCHANGED success_count
    /\ UNCHANGED <<files, no_backup, fs, idx, total_files, content,
                   original_quote_count, is_opening, result, message,
                   startFs, steps>>
    /\ UNCHANGED normVars

\* if success: success_count += 1; print(message) else: print to stderr
Tally ==
    /\ pc = "returned"
    /\ runs' = [runs EXCEPT ![Len(runs)] =
                   [path |-> filepath, returned |-> TRUE,
                    success |-> result.success]]
    /\ success_count' = IF result.success THEN success_count + 1
                        ELSE success_count
    /\ pc' = "loop"
    /\ UNCHANGED <<files, no_backup, fs, idx, total_files, exit_code, content,
                   original_quote_count, is_opening, result, message,
                   startFs, steps>>
    /\ UNCHANGED normVars

\* sys.exit(0 if success_count == total_files else 1)
Exit ==
    /\ pc = "loop"
    /\ idx = Len(files)
    /\ exit_code' = IF success_count = total_files THEN 0 ELSE 1
    /\ pc' = "done"
    /\ UNCHANGED <<files, no_backup, fs, idx, total_files, success_count,
                   content, original_quote_count, is_opening, result, message,
                   startFs, steps, runs>>
    /\ UNCHANGED normVars

Next ==
    \/ NextFile
    \/ CheckExists
    \/ CheckExtension
    \/ Backup
    \/ Read
    \/ Transform
    \/ Write
    \/ Report
    \/ Tally
    \/ Exit

Spec == Init /\ [][Next]_vars

----------------------------------------------------------------------------
(* The normalizer on its own: every buffer up to MaxLen over the alphabet *)

Alphabet == {34, 39, 97, 8220, 8221, 8222, 8223, 8243, 12317, 12318, 65282}

Buffers == UNION {[1..k -> Alphabet] : k \in 0..MaxLen}

PipeIdle ==
    /\ files = <<>>
    /\ no_backup = FALSE
    /\ fs = [p \in AllPaths |-> Absent]
    /\ pc = "idle"
    /\ idx = 0
    /\ total_files = 0
    /\ success_count = 0
    /\ exit_code = -1
    /\ content = <<>>
    /\ original_quote_count = 0
    /\ is_opening = TRUE
    /\ result = NoResult
    /\ message = NoMessage
    /\ startFs = fs
    /\ steps = <<>>
    /\ runs = <<>>

NormInit ==
    /\ nbuf \in Buffers
    /\ nout = <<>>
    /\ nagain = <<>>
    /\ nmsg = NoMessage
    /\ npc = "input"
    /\ PipeIdle

\* fold, count, pair and the three counts of the report, on nbuf
NormApply ==
    /\ npc = "input"
    /\ LET folded == Fold(nbuf)
           paired == Pair(folded).result
       IN  /\ nout' = paired
           /\ nmsg' = [original |-> Count(folded, ASCII_QUOTE),
                       left |-> Count(paired, LEFT_QUOTE),
                       right |-> Count(paired, RIGHT_QUOTE),
                       ascii |-> Count(paired, ASCII_QUOTE)]
    /\ npc' = "once"
    /\ UNCHANGED <<nbuf, nagain>>
    /\ UNCHANGED pipeVars

\* the transform applied to its own output (a second run of the tool)
NormApplyAgain ==
    /\ npc = "once"
    /\ nagain' = Normalize(nout)
    /\ npc' = "twice"
    /\ UNCHANGED <<nbuf, nout, nmsg>>
    /\ UNCHANGED pipeVars

NormNext ==
    \/ NormApply
    \/ NormApplyAgain

SpecNorm == NormInit /\ [][NormNext]_vars

----------------------------------------------------------------------------
(* Vocabulary of the properties *)

QuoteVariants == {8220, 8221, 8222, 8223, 8243, 12317, 12318, 65282}

IsQuote(c) == c = 34 \/ c \in QuoteVariants

QuotePositions(s) == {i \in 1..Len(s) : IsQuote(s[i])}

\* i is the n-th quote of s for n = QuoteRank(s, i)
QuoteRank(s, i) == Cardinality({j \in QuotePositions(s) : j <= i})

SameIgnoringCase(c, d) ==
    \/ c = d
    \/ \E i \in 1..Len(UpperChars) : {c, d} = {UpperChars[i], LowerChars[i]}

HasSuffixIgnoringCase(p, e) ==
    /\ Len(p) > Len(e)
    /\ \A i \in 1..Len(e) : SameIgnoringCase(p[Len(p) - Len(e) + i], e[i])

SupportedSuffix(p) ==
    \E e \in SUPPORTED_EXTENSIONS : HasSuffixIgnoringCase(p, e)

InPipeline == idx >= 1 /\ pc \notin {"idle", "done"}

Returned == InPipeline /\ pc = "returned"

BackupSucceeded ==
    /\ InPipeline
    /\ \E i \in 1..Len(steps) : steps[i] = "backup"
    /\ result.error # "BackupError"

StepsBeforeWrite ==
    IF no_backup THEN <<"exists", "ext", "read", "transform">>
    ELSE <<"exists", "ext", "backup", "read", "transform">>

----------------------------------------------------------------------------
(* Properties of the normalizer, under SpecNorm *)

\* C1: the n-th quote of the buffer (ASCII quote or one of the variants,
\* counted left to right from 1) becomes LEFT when n is odd and RIGHT when n
\* is even; with an odd number of quotes the last one is a LEFT, and a buffer
\* with exactly one quote gives one LEFT and no RIGHT.
AlternationLaw ==
    npc # "input" =>
      /\ \A i \in QuotePositions(nbuf) :
            /\ i <= Len(nout)
            /\ nout[i] = IF QuoteRank(nbuf, i) % 2 = 1 THEN 8220 ELSE 8221
      /\ \A i \in QuotePositions(nbuf) :
            (/\ Cardinality(QuotePositions(nbuf)) % 2 = 1
             /\ \A j \in QuotePositions(nbuf) : j <= i) => nout[i] = 8220
      /\ Cardinality(QuotePositions(nbuf)) = 1 =>
            Count(nout, 8220) = 1 /\ Count(nout, 8221) = 0

AlternationWitness ==
    /\ npc = "once"
    /\ Cardinality(QuotePositions(nbuf)) = 3
    /\ 34 \in {nbuf[i] : i \in 1..Len(nbuf)}
    /\ 8222 \in {nbuf[i] : i \in 1..Len(nbuf)}
    /\ Count(nout, 8220) = 2
    /\ Count(nout, 8221) = 1

\* C2: the reported original quote count (ASCII quotes of the folded buffer)
\* is the number of quotes of the input and equals the LEFT count plus the
\* RIGHT count of the output; the residual ASCII quote count is 0.
PairingCoverage ==
    npc # "input" =>
      /\ nmsg.original = Cardinality(QuotePositions(nbuf))
      /\ nmsg.original = nmsg.left + nmsg.right
      /\ nmsg.ascii = 0
      /\ \A i \in 1..Len(nout) : nout[i] # 34

PairingCoverageWitness ==
    /\ npc = "once"
    /\ nmsg.original = 3
    /\ nmsg.left = 2
    /\ nmsg.right = 1
    /\ \E i \in 1..Len(nbuf) : nbuf[i] = 34
    /\ \E i \in 1..Len(nbuf) : nbuf[i] = 8221

\* C3: the output has the length of the input and every position that holds
\* neither a quote variant nor the ASCII quote holds the same character.
NonQuotePreservation ==
    npc # "input" =>
      /\ Len(nout) = Len(nbuf)
      /\ \A i \in 1..Len(nbuf) : ~IsQuote(nbuf[i]) => nout[i] = nbuf[i]

NonQuotePreservationWitness ==
    /\ npc = "once"
    /\ Len(nbuf) = 3
    /\ nbuf[1] = 97
    /\ nbuf[2] = 12317
    /\ nbuf[3] = 39
    /\ nout = <<97, 8220, 39>>

\* C10: the transform applied to its own output gives that output again.
NormalizeIdempotent == npc = "twice" => nagain = nout

NormalizeIdempotentWitness ==
    /\ npc = "twice"
    /\ nout # nbuf
    /\ Count(nout, 8220) = 2
    /\ Count(nout, 8221) = 1
    /\ nagain = nout

----------------------------------------------------------------------------
(* Properties of the driver and of the per-file pipeline, under Spec *)

\* C4: at exit the pipeline has run exactly once for every path, in the given
\* order, whatever the earlier outcomes; the success tally is the number of
\* runs that returned success, and the exit status is 0 when every run
\* succeeded and 1 otherwise.
BatchIndependence ==
    pc = "done" =>
      /\ Len(runs) = Len(files)
      /\ \A i \in 1..Len(runs) : runs[i].path = files[i] /\ runs[i].returned
      /\ success_count = Cardinality({i \in 1..Len(runs) : runs[i].success})
      /\ total_files = Len(files)
      /\ exit_code \in {0, 1}
      /\ exit_code = 0 <=> \A i \in 1..Len(runs) : runs[i].success

BatchIndependenceWitness ==
    /\ pc = "done"
    /\ Len(files) = 2
    /\ ~runs[1].success
    /\ runs[2].success
    /\ success_count = 1
    /\ exit_code = 1

\* C5: an existing path whose suffix is not a supported one (letter case
\* ignored) is rejected as an unsupported type and no file, original or
\* backup, is created or changed, with or without backup; an existing path
\* whose suffix is supported in any letter case passes the extension check.
ExtensionGating ==
    (Returned /\ Exists(startFs[filepath])) =>
      IF SupportedSuffix(filepath)
      THEN /\ result.error \notin {"UnsupportedTypeError", "NotFoundError"}
           /\ Len(steps) > 2
      ELSE /\ result = Failure("UnsupportedTypeError")
           /\ steps = <<"exists", "ext">>
           /\ fs = startFs

ExtensionGatingWitness ==
    /\ Returned
    /\ filepath = PathB
    /\ startFs[PathB].kind = "file"
    /\ ~no_backup
    /\ result.error = "UnsupportedTypeError"
    /\ fs[BackupPath(PathB)] = Absent

\* C6 as stated: a path that is not a readable file (absent, a directory, or
\* unreadable) fails with NotFoundError at the first step, and the backup is
\* never attempted.
ExistenceCheckReadable ==
    (Returned /\ startFs[filepath].kind # "file") =>
      /\ result = Failure("NotFoundError")
      /\ steps = <<"exists">>

\* C6 amended: a path that does not exist (os.path.exists is false) fails
\* with NotFoundError at the first step, nothing else runs and no file
\* changes; NotFoundError is given only then; a path that exists but is a
\* directory or cannot be opened for reading passes the existence check and
\* fails later: as an unsupported type when its suffix is not supported,
\* else at the backup copy when backup is enabled, else at the read.
ExistenceCheck ==
    Returned =>
      /\ startFs[filepath].kind = "absent" =>
            /\ result = Failure("NotFoundError")
            /\ steps = <<"exists">>
            /\ fs = startFs
      /\ result.error = "NotFoundError" => startFs[filepath].kind = "absent"
      /\ startFs[filepath].kind \in {"dir", "noread"} =>
            /\ ~result.success
            /\ Len(steps) >= 2
            /\ result.error =
                 IF ~SupportedSuffix(filepath) THEN "UnsupportedTypeError"
                 ELSE IF no_backup THEN "ReadError" ELSE "BackupError"

ExistenceCheckWitness ==
    /\ Returned
    /\ startFs[filepath].kind = "absent"
    /\ ~no_backup
    /\ SupportedSuffix(filepath)
    /\ result.error = "NotFoundError"

\* C7: once the backup step of a pipeline has succeeded, the backup file
\* holds the content the original had when the pipeline started, and keeps
\* it for the rest of the pipeline, whether read, transform and write
\* succeed or fail.
BackupFidelity ==
    BackupSucceeded =>
      /\ startFs[filepath].kind = "file"
      /\ fs[BackupPath(filepath)] =
           [kind |-> "file", content |-> startFs[filepath].content]

BackupFidelityWitness ==
    /\ Returned
    /\ BackupSucceeded
    /\ result.error = "WriteError"
    /\ fs[filepath].content # startFs[filepath].content
    /\ startFs[BackupPath(filepath)].kind = "file"

\* C8: the pairing of every file starts at opening: the content a pipeline
\* is about to write is the normalization of the file's own content, and its
\* first quote is a LEFT, whatever the files before it contained.
ToggleReset ==
    (InPipeline /\ pc = "write") =>
      /\ content = Normalize(startFs[filepath].content)
      /\ \A i \in QuotePositions(startFs[filepath].content) :
            QuoteRank(startFs[filepath].content, i) = 1 => content[i] = 8220

ToggleResetWitness ==
    /\ InPipeline
    /\ pc = "write"
    /\ idx = 2
    /\ runs[1].success
    /\ Cardinality(QuotePositions(fs[files[1]].content)) % 2 = 1
    /\ QuotePositions(content) # {}

\* C9: the original file differs from what it was when the pipeline started
\* only once the write step has run; the write step is reached only after
\* the existence check, the extension check, the backup (when enabled) and
\* the read, in that order; a pipeline that ends with a backup failure or a
\* read failure returns failure with every given file as it was.
StepOrder ==
    InPipeline =>
      /\ \A p \in Paths : fs[p] # startFs[p] =>
            /\ p = filepath
            /\ steps[Len(steps)] \in {"write", "report"}
      /\ pc = "write" => steps = StepsBeforeWrite
      /\ \A i \in 1..Len(steps) :
            steps[i] = "write" => SubSeq(steps, 1, i - 1) = StepsBeforeWrite
      /\ result.error \in {"BackupError", "ReadError"} =>
            /\ ~result.success
            /\ \A p \in Paths : fs[p] = startFs[p]

StepOrderWitness ==
    /\ Returned
    /\ result.error = "ReadError"
    /\ BackupSucceeded
    /\ startFs[filepath].kind = "file"
    /\ fs[filepath] = startFs[filepath]

====
